---- MODULE Spec2Model ----
(***************************************************************************)
(* Model of the DynamoDB Local process supervisor                          *)
(* (localstack/services/dynamodb/server.py, class DynamodbServer).         *)
(*                                                                         *)
(* Caller threads invoke start_dynamodb / stop_dynamodb, both wrapped in   *)
(* @synchronized(lock=RESTART_LOCK).  The child OS processes and the       *)
(* watcher threads (ShellCommandThread) that own them form the             *)
(* environment.                                                            *)
(***************************************************************************)
EXTENDS Naturals, Sequences, FiniteSets

(* ---------------------------------------------------------------- bounds *)
MaxSpawns == 2          \* do_start_thread calls explored
MaxCalls == 3           \* start/stop calls made in one run
MaxCrashes == 1         \* spontaneous child exits explored

(* ------------------------------------------------------------- constants *)
HEALTH_RETRIES == 10    \* retry(self.check_dynamodb, sleep=0.4, retries=10)
PORT_RETRIES == 10      \* wait_for_port_closed(..., sleep_time=0.8, retries=10)
KILL_PORT_RETRIES == 8  \* wait_for_port_closed(..., sleep_time=0.5, retries=8)

Threads == {"t1", "t2"}
NoOwner == "nobody"
NoThread == 0           \* self._thread is None
NoPath == "none"        \* self.db_path is None
DbPaths == {NoPath, "", "/data/dynamodb"}

VARIABLES
    lock,       \* RESTART_LOCK: [owner, count]
    pc,         \* position of every caller thread
    ncalls,     \* calls made so far
    result,     \* outcome of the last call of every caller thread
    started,    \* Server._started
    stopped,    \* Server._stopped
    thread,     \* Server._thread: index into watchers, NoThread if None
    watchers,   \* the ShellCommandThreads created so far (TMP_THREADS)
    db_path,    \* DynamodbServer.db_path
    tries,      \* attempts made by the retry loop in progress
    call,       \* what the call holding the lock has done so far
    lastOp,     \* outcome of the last finished call on the supervisor
    cycles,     \* finished start/stop cycles
    launches,   \* child OS processes launched so far
    crashes,    \* spontaneous child exits so far
    env,        \* constructor arguments, configuration and environment variables
    server,     \* the fields __init__ sets on a DynamodbServer
    cmd,        \* the argv returned by _create_shell_command
    observed,   \* what the last is_running()/is_up() call of a thread saw
    gpc,        \* position of every thread inside DynamodbServer.get()
    glock,      \* the lock of singleton_factory
    got,        \* the instance every thread received from get()
    ngets,      \* calls of get() made so far
    constructions,  \* runs of DynamodbServer.__init__ made by get()
    locks,      \* owner of every lock, by name (two supervisor instances)
    tpc,        \* position of every thread in its call on one of two instances
    target,     \* the instance every thread calls
    top,        \* the method every thread calls: "start" or "stop"
    ttries,     \* attempts made by the retry loop of every thread
    tcalls,     \* calls made so far on the two instances
    sup         \* flags and child of each of the two instances

supVars == <<lock, pc, ncalls, result, started, stopped, thread, watchers,
             db_path, tries, call, lastOp, cycles, launches, crashes>>
cmdVars == <<env, server, cmd>>
liveVars == <<observed>>
getVars == <<gpc, glock, got, ngets, constructions>>
twoVars == <<locks, tpc, target, top, ttries, tcalls, sup>>
auxVars == <<cmdVars, liveVars, getVars, twoVars>>
vars == <<supVars, auxVars>>

(* --------------------------------------------------------------- helpers *)
Alive == {"booting", "up"}

\* the server port has a listener
PortOpen == \E i \in 1..Len(watchers) : watchers[i].proc = "up"

\* the child OS processes that are alive
LiveChildren == {i \in 1..Len(watchers) : watchers[i].proc \in Alive}

\* FuncThread.running of the watcher behind self._thread
thread_running == thread # NoThread /\ watchers[thread].proc \in Alive

\* Server.is_running
is_running == started /\ ~stopped /\ thread_running

\* Server.is_up
is_up == started /\ PortOpen

\* threading.Event.clear
clear_event_kept(e) == e
clear_event(e) == FALSE

\* RLock.acquire succeeds for the owner and when nobody holds the lock
can_acquire_always(t) == TRUE
can_acquire(t) == lock.owner \in {NoOwner, t}

\* the idempotence check of start_dynamodb
already_started_never == FALSE
already_started == is_running /\ is_up

\* the guard of stop_dynamodb
no_thread_never == FALSE
no_thread == thread = NoThread

\* check_dynamodb: passes iff list_tables answered with a list of tables
check_dynamodb_blind(healthy) == TRUE
check_dynamodb(healthy) == healthy

\* retry(function, retries=n): the loop gives up after n failed attempts
retry_exhausted(attempts, retries) == attempts >= retries

\* the attempts retry(function, retries=n) may make before it gives up: n, or n
\* repetitions after the first attempt
RetryBudgets(retries) == {retries, retries + 1}

\* retry and wait_for_port_closed count every failed attempt
next_attempt(n) == n + 1

\* wait_for_dynamodb: a failed probe is followed by another probe, nothing else
after_failed_probe_respawn == "start_body"
after_failed_probe == "start_wait"

\* line 124: join(timeout=10) returns when the watcher ended or after 10 seconds
join_returns(ended) == TRUE

\* line 122: the value stop_dynamodb assigns to self._thread.auto_restart
stop_auto_restart_kept == TRUE
stop_auto_restart == FALSE

\* lines 125-127: the except branch is entered iff wait_for_port_closed raised,
\* which it does when the port was open at every poll
port_wait_failed_always(open, exhausted) == TRUE
port_wait_failed(open, exhausted) == open /\ exhausted

\* Server.start after the flags were (or were not) cleared
server_start(st, sp) ==
    IF sp THEN "raise_restart" ELSE IF st THEN "already" ELSE "spawn"

FreeLock == [owner |-> NoOwner, count |-> 0]

NewCall(t, k) ==
    [owner |-> t, kind |-> k, checked |-> FALSE, pre |-> FALSE,
     early |-> FALSE, cleared |-> FALSE, mkdir |-> FALSE, spawned |-> FALSE,
     probeOk |-> FALSE, noop |-> FALSE, sig |-> FALSE, joined |-> FALSE,
     polled |-> FALSE, poll1Exh |-> FALSE, term |-> FALSE, kill |-> FALSE,
     polled2 |-> FALSE, handle |-> thread,
     disabled |-> FALSE, shut |-> FALSE, prev |-> lastOp,
     done |-> FALSE, res |-> "none"]

NewWatcher == [proc |-> "booting", auto_restart |-> TRUE, sig |-> FALSE]

(* ------------------------------------------------- __init__ and the argv *)
NoServer == [constructed |-> FALSE, id |-> 0]
NoCmd == << >>

Archs == {"arm64", "amd64"}
PortArgs == {0, 4566}                    \* port: int | None = None
FreePorts == {50123}                     \* get_free_tcp_port()
DbPathArgs == {NoPath, "", "ddb", "/srv/ddb"}
DataDirs == {"", "/var/lib/localstack"}  \* config.dirs.data
HeapSizes == {"256m", "1G"}              \* config.DYNAMODB_HEAP_SIZE

\* truth value of an optional string: None and "" are falsy
truthy(x) == x \notin {NoPath, ""}

\* f"{config.dirs.data}/dynamodb" and f"{config.dirs.tmp}/dynamodb"
data_dir_db(d) == IF d = "/var/lib/localstack" THEN "/var/lib/localstack/dynamodb"
                  ELSE "/dynamodb"
tmp_dir_db == "/tmp/localstack/dynamodb"

\* os.path.abspath: an absolute path is kept, a relative one is put under the cwd
abspath(p) == IF p = "ddb" THEN "/opt/code/localstack/ddb" ELSE p

\* str(n) for n >= 0, as the sequence of its decimal digits
DigitChars == <<"0", "1", "2", "3", "4", "5", "6", "7", "8", "9">>
RECURSIVE str(_)
str(n) == IF n < 10 THEN <<DigitChars[n + 1]>>
          ELSE Append(str(n \div 10), DigitChars[(n % 10) + 1])

\* lines 53-82: DynamodbServer.__init__
init_server(e, free_port) ==
    LET p0 == IF ~truthy(e.db_path) /\ truthy(e.dirs_data)
              THEN data_dir_db(e.dirs_data) ELSE e.db_path
        p1 == IF e.persistence /\ e.manual THEN tmp_dir_db ELSE p0
        p2 == IF e.in_memory THEN NoPath ELSE p1
        p3 == IF truthy(p2) THEN abspath(p2) ELSE p2
    IN  [constructed |-> TRUE,
         id |-> 1,
         port |-> IF e.port # 0 THEN e.port ELSE free_port,
         arch |-> e.arch,
         db_path |-> p3,
         heap_size |-> e.heap_size,
         delay_transient_statuses |-> e.delay,
         optimize_db_before_startup |-> e.optimize,
         share_db |-> e.share]

\* lines 143-145: DynamodbServer.in_memory
in_memory(s) == s.db_path = NoPath

\* an argv element is a string, kept as the sequence of the pieces it is
\* formatted from
arg(x) == <<x>>

\* lines 155-159: _get_java_vm_options
get_java_vm_options(s) ==
    IF s.arch = "arm64" THEN <<arg("-XX:UseSVE=0")>> ELSE << >>

\* lines 178-183: the three independent feature flags
feature_flags_chained(s) ==
    IF s.delay_transient_statuses THEN <<arg("-delayTransientStatuses")>>
    ELSE IF s.optimize_db_before_startup THEN <<arg("-optimizeDbBeforeStartup")>>
    ELSE IF s.share_db THEN <<arg("-sharedDb")>> ELSE << >>
feature_flags(s) ==
    (IF s.delay_transient_statuses
     THEN <<arg("-delayTransientStatuses")>> ELSE << >>)
    \o (IF s.optimize_db_before_startup
        THEN <<arg("-optimizeDbBeforeStartup")>> ELSE << >>)
    \o (IF s.share_db THEN <<arg("-sharedDb")>> ELSE << >>)

\* lines 171-183: parameters
parameters(s) ==
    <<arg("-port"), str(s.port)>>
    \o (IF in_memory(s) THEN <<arg("-inMemory")>> ELSE << >>)
    \o (IF truthy(s.db_path) THEN <<arg("-dbPath"), arg(s.db_path)>> ELSE << >>)
    \o feature_flags(s)

\* lines 161-185: _create_shell_command
create_shell_command(s) ==
    <<arg("java")>> \o get_java_vm_options(s)
    \o << <<"-Xmx", s.heap_size>>, <<"-javaagent:", "ddb-agent.jar">>,
          <<"-Djava.library.path=", "DynamoDBLocal_lib">>, arg("-jar"),
          arg("DynamoDBLocal.jar") >>
    \o parameters(s)

DefaultEnv ==
    [port |-> 0, db_path |-> NoPath, dirs_data |-> "", persistence |-> FALSE,
     manual |-> FALSE, in_memory |-> FALSE, heap_size |-> "256m", arch |-> "amd64",
     delay |-> FALSE, optimize |-> FALSE, share |-> FALSE]

CmdIdle == env = DefaultEnv /\ server = NoServer /\ cmd = NoCmd

NotObserved == [seen |-> FALSE, held |-> FALSE, running |-> FALSE, up |-> FALSE]
LiveIdle == observed = NotObserved

Instances == {"A", "B"}
LockNames == {"RESTART_LOCK"} \cup Instances

TwoIdle ==
    /\ locks = [l \in LockNames |-> NoOwner]
    /\ tpc = [t \in Threads |-> "idle"]
    /\ target = [t \in Threads |-> "A"]
    /\ top = [t \in Threads |-> "none"]
    /\ ttries = [t \in Threads |-> 0]
    /\ tcalls = 0
    /\ sup = [i \in Instances |->
                [started |-> FALSE, stopped |-> FALSE, thread |-> NoThread, kids |-> << >>]]

GetIdle ==
    /\ gpc = [t \in Threads |-> "idle"]
    /\ glock = NoOwner
    /\ got = [t \in Threads |-> 0]
    /\ ngets = 0
    /\ constructions = 0

(* ------------------------------------------------------------------ Init *)
Init ==
    /\ lock = FreeLock
    /\ pc = [t \in Threads |-> "idle"]
    /\ ncalls = 0
    /\ result = [t \in Threads |-> "none"]
    /\ started = FALSE
    /\ stopped = FALSE
    /\ thread = NoThread
    /\ watchers = << >>
    /\ db_path \in DbPaths
    /\ tries = 0
    /\ lastOp = "none"
    /\ call = NewCall(NoOwner, "none")
    /\ cycles = 0
    /\ launches = 0
    /\ crashes = 0
    /\ CmdIdle
    /\ LiveIdle
    /\ GetIdle
    /\ TwoIdle

Raised == {"raised_restart", "raised_spawn", "raised_health", "raised_attribute",
           "raised_shutdown", "raised_lookup", "raised_port"}

EndCall(t, res, c) ==
    /\ call' = [c EXCEPT !.done = TRUE, !.res = res]
    /\ pc' = [pc EXCEPT ![t] = "idle"]
    /\ result' = [result EXCEPT ![t] = res]

FinishKeepsLockOnRaise(t, res, c) ==
    /\ EndCall(t, res, c)
    /\ lock' = IF res \in Raised THEN lock ELSE FreeLock
    /\ lastOp' = lastOp
    /\ cycles' = cycles

(* the end of a call: the lock is released, on return and on raise alike *)
Finish(t, res, c) ==
    /\ EndCall(t, res, c)
    /\ lock' = FreeLock
    /\ lastOp' = IF call.kind = "start"
                 THEN (IF res = "true" THEN "start_ok" ELSE "start_fail")
                 ELSE (IF res = "returned" THEN "stop" ELSE "stop_fail")
    /\ cycles' = IF call.kind = "stop" /\ res = "returned" /\ lastOp = "start_ok"
                 THEN cycles + 1 ELSE cycles

(* ------------------------------------------------------- start_dynamodb *)
call_start(t) ==
    /\ pc[t] = "idle"
    /\ ncalls < MaxCalls
    /\ pc' = [pc EXCEPT ![t] = "start_lock"]
    /\ ncalls' = ncalls + 1
    /\ result' = [result EXCEPT ![t] = "pending"]
    /\ UNCHANGED <<lock, started, stopped, thread, watchers, db_path, tries,
                   call, lastOp, cycles, launches, crashes>>

start_acquire(t) ==
    /\ pc[t] = "start_lock"
    /\ can_acquire(t)
    /\ lock' = [owner |-> t, count |-> lock.count + 1]
    /\ pc' = [pc EXCEPT ![t] = "start_body"]
    /\ call' = NewCall(t, "start")
    /\ tries' = 0
    /\ UNCHANGED <<ncalls, result, started, stopped, thread, watchers, db_path,
                   lastOp, cycles, launches, crashes>>

\* lines 94-95: already running and up
start_idempotent(t) ==
    /\ pc[t] = "start_body"
    /\ already_started
    /\ Finish(t, "true",
              [call EXCEPT !.checked = TRUE, !.early = TRUE,
                           !.pre = (lastOp = "start_ok" /\ thread_running /\ PortOpen)])
    /\ UNCHANGED <<ncalls, started, stopped, thread, watchers, db_path, tries,
                   launches, crashes>>

\* lines 100-109: clear both flags, create the data directory.  The two clears
\* are one step: the lock keeps start and stop out, and is_running and is_up
\* are False from the first clear on.
start_clear(t) ==
    /\ pc[t] = "start_body"
    /\ ~already_started
    /\ started' = clear_event(started)
    /\ stopped' = clear_event(stopped)
    /\ call' = [call EXCEPT !.checked = TRUE,
                            !.pre = (lastOp = "start_ok" /\ thread_running /\ PortOpen),
                            !.cleared = TRUE,
                            !.mkdir = truthy(db_path)]
    /\ pc' = [pc EXCEPT ![t] = "start_launch"]
    /\ UNCHANGED <<lock, ncalls, result, thread, watchers, db_path, tries,
                   lastOp, cycles, launches, crashes>>

\* line 111: started = self.start(), which runs do_start_thread (lines 187-208)
start_launch(t) ==
    /\ pc[t] = "start_launch"
    /\ LET out == server_start(started, stopped)
       IN  \/ /\ out = "raise_restart"
              /\ Finish(t, "raised_restart", call)
              /\ UNCHANGED <<started, thread, watchers, launches>>
           \/ /\ out = "already"
              /\ pc' = [pc EXCEPT ![t] = "start_wait"]
              /\ UNCHANGED <<started, thread, watchers, launches, call, lock,
                             result, lastOp, cycles>>
           \/ \* do_start_thread created and started the watcher
              /\ out = "spawn"
              /\ Len(watchers) < MaxSpawns
              /\ watchers' = Append(watchers, NewWatcher)
              /\ thread' = Len(watchers) + 1
              /\ launches' = launches + 1
              /\ started' = TRUE
              /\ call' = [call EXCEPT !.spawned = TRUE]
              /\ pc' = [pc EXCEPT ![t] = "start_wait"]
              /\ UNCHANGED <<lock, result, lastOp, cycles>>
           \/ \* do_start_thread raised (install or launch failed)
              /\ out = "spawn"
              /\ Len(watchers) < MaxSpawns
              /\ Finish(t, "raised_spawn", call)
              /\ UNCHANGED <<started, thread, watchers, launches>>
    /\ UNCHANGED <<ncalls, stopped, db_path, tries, crashes>>

\* lines 112-113 and 210-229: one attempt of retry(self.check_dynamodb).  How long
\* self.wait_is_up() of line 215 keeps an attempt waiting on a closed port is not
\* fixed here: the step may be taken at any time or never.
start_probe(t) ==
    /\ pc[t] = "start_wait"
    /\ \E listed \in BOOLEAN, budget \in RetryBudgets(HEALTH_RETRIES) :
          \* listed: list_tables answered with a list under "TableNames"
          IF check_dynamodb(PortOpen /\ listed)
          THEN /\ Finish(t, IF call.spawned THEN "true" ELSE "false",
                         [call EXCEPT !.probeOk = PortOpen /\ listed])
               /\ UNCHANGED tries
          ELSE IF ~retry_exhausted(next_attempt(tries), budget)
          THEN /\ tries' = next_attempt(tries)
               /\ pc' = [pc EXCEPT ![t] = after_failed_probe]
               /\ UNCHANGED <<call, result, lock, lastOp, cycles>>
          ELSE /\ tries' = next_attempt(tries)
               /\ Finish(t, "raised_health", call)
    /\ UNCHANGED <<ncalls, started, stopped, thread, watchers, db_path,
                   launches, crashes>>

(* -------------------------------------------------------- stop_dynamodb *)
call_stop(t) ==
    /\ pc[t] = "idle"
    /\ ncalls < MaxCalls
    /\ pc' = [pc EXCEPT ![t] = "stop_lock"]
    /\ ncalls' = ncalls + 1
    /\ result' = [result EXCEPT ![t] = "pending"]
    /\ UNCHANGED <<lock, started, stopped, thread, watchers, db_path, tries,
                   call, lastOp, cycles, launches, crashes>>

stop_acquire(t) ==
    /\ pc[t] = "stop_lock"
    /\ can_acquire(t)
    /\ lock' = [owner |-> t, count |-> lock.count + 1]
    /\ pc' = [pc EXCEPT ![t] = "stop_body"]
    /\ call' = NewCall(t, "stop")
    /\ tries' = 0
    /\ UNCHANGED <<ncalls, result, started, stopped, thread, watchers, db_path,
                   lastOp, cycles, launches, crashes>>

\* lines 120-121: no process handle
stop_noop(t) ==
    /\ pc[t] = "stop_body"
    /\ no_thread
    /\ Finish(t, "returned", [call EXCEPT !.noop = TRUE])
    /\ UNCHANGED <<ncalls, started, stopped, thread, watchers, db_path, tries,
                   launches, crashes>>

\* line 122: self._thread.auto_restart = False
stop_disable_restart(t) ==
    /\ pc[t] = "stop_body"
    /\ ~no_thread
    /\ IF thread = NoThread
       THEN \* None has no attribute auto_restart
            /\ Finish(t, "raised_attribute", call)
            /\ UNCHANGED watchers
       ELSE /\ watchers' = [watchers EXCEPT ![thread].auto_restart = stop_auto_restart]
            /\ call' = [call EXCEPT !.disabled = TRUE]
            /\ pc' = [pc EXCEPT ![t] = "stop_shutdown"]
            /\ UNCHANGED <<result, lock, lastOp, cycles>>
    /\ UNCHANGED <<ncalls, started, stopped, thread, db_path, tries,
                   launches, crashes>>

\* line 123: Server.shutdown
stop_shutdown(t) ==
    /\ pc[t] = "stop_shutdown"
    /\ IF ~started
       THEN \* cannot shutdown server before it is started
            /\ Finish(t, "raised_shutdown", call)
            /\ UNCHANGED <<stopped, watchers>>
       ELSE IF stopped
       THEN /\ pc' = [pc EXCEPT ![t] = "stop_join"]
            /\ call' = [call EXCEPT !.shut = TRUE]
            /\ UNCHANGED <<stopped, watchers, result, lock, lastOp, cycles>>
       ELSE \* self._thread.stop(); self._stopped.set()
            /\ watchers' = [watchers EXCEPT ![thread].sig = TRUE]
            /\ stopped' = TRUE
            /\ call' = [call EXCEPT !.sig = TRUE, !.shut = TRUE]
            /\ pc' = [pc EXCEPT ![t] = "stop_join"]
            /\ UNCHANGED <<result, lock, lastOp, cycles>>
    /\ UNCHANGED <<ncalls, started, thread, db_path, tries, launches, crashes>>

\* line 124: self.join(timeout=10) returns when the watcher ended or on timeout
stop_join(t) ==
    /\ pc[t] = "stop_join"
    /\ join_returns(watchers[thread].proc = "done")
    /\ call' = [call EXCEPT !.joined = TRUE]
    /\ pc' = [pc EXCEPT ![t] = "stop_poll1"]
    /\ tries' = 0
    /\ UNCHANGED <<lock, ncalls, result, started, stopped, thread, watchers,
                   db_path, lastOp, cycles, launches, crashes>>

\* lines 125-127: one poll of wait_for_port_closed(retries=10)
stop_poll1(t) ==
    /\ pc[t] = "stop_poll1"
    /\ \E budget \in RetryBudgets(PORT_RETRIES) :
       LET exhausted == retry_exhausted(next_attempt(tries), budget)
       IN  IF port_wait_failed(PortOpen, exhausted)
           THEN /\ tries' = next_attempt(tries)
                /\ call' = [call EXCEPT !.polled = TRUE,
                                        !.poll1Exh = PortOpen /\ exhausted]
                /\ pc' = [pc EXCEPT ![t] = "stop_lookup"]
                /\ UNCHANGED <<result, lock, lastOp, cycles>>
           ELSE IF ~PortOpen
           THEN /\ Finish(t, "returned", [call EXCEPT !.polled = TRUE])
                /\ UNCHANGED tries
           ELSE /\ tries' = next_attempt(tries)
                /\ call' = [call EXCEPT !.polled = TRUE]
                /\ UNCHANGED <<pc, result, lock, lastOp, cycles>>
    /\ UNCHANGED <<ncalls, started, stopped, thread, watchers, db_path,
                   launches, crashes>>

\* lines 136-138: self._thread.process.pid and psutil.Process(server_pid)
stop_lookup(t) ==
    /\ pc[t] = "stop_lookup"
    /\ \E found \in BOOLEAN :
          /\ watchers[thread].proc \in Alive => found
          /\ IF found
             THEN /\ pc' = [pc EXCEPT ![t] = "stop_terminate"]
                  /\ UNCHANGED <<call, result, lock, lastOp, cycles>>
             ELSE \* the process is gone: the lookup raises inside the handler
                  /\ Finish(t, "raised_lookup", call)
    /\ UNCHANGED <<ncalls, started, stopped, thread, watchers, db_path, tries,
                   launches, crashes>>

\* line 139: run_safe(process.terminate)
stop_terminate(t) ==
    /\ pc[t] = "stop_terminate"
    /\ \E dies \in BOOLEAN :
          watchers' = IF dies /\ watchers[thread].proc \in Alive
                      THEN [watchers EXCEPT ![thread].proc = "exited"]
                      ELSE watchers
    /\ call' = [call EXCEPT !.term = TRUE]
    /\ pc' = [pc EXCEPT ![t] = "stop_kill"]
    /\ UNCHANGED <<lock, ncalls, result, started, stopped, thread, db_path,
                   tries, lastOp, cycles, launches, crashes>>

\* line 140: run_safe(process.kill)
stop_kill(t) ==
    /\ pc[t] = "stop_kill"
    /\ \E dies \in BOOLEAN :
          watchers' = IF dies /\ watchers[thread].proc \in Alive
                      THEN [watchers EXCEPT ![thread].proc = "exited"]
                      ELSE watchers
    /\ call' = [call EXCEPT !.kill = TRUE]
    /\ pc' = [pc EXCEPT ![t] = "stop_poll2"]
    /\ tries' = 0
    /\ UNCHANGED <<lock, ncalls, result, started, stopped, thread, db_path,
                   lastOp, cycles, launches, crashes>>

\* line 141: one poll of wait_for_port_closed(retries=8), outside any try
stop_poll2(t) ==
    /\ pc[t] = "stop_poll2"
    /\ \E budget \in RetryBudgets(KILL_PORT_RETRIES) :
       IF ~PortOpen
       THEN /\ Finish(t, "returned", [call EXCEPT !.polled2 = TRUE])
            /\ UNCHANGED tries
       ELSE IF ~retry_exhausted(next_attempt(tries), budget)
       THEN /\ tries' = next_attempt(tries)
            /\ call' = [call EXCEPT !.polled2 = TRUE]
            /\ UNCHANGED <<pc, result, lock, lastOp, cycles>>
       ELSE /\ tries' = next_attempt(tries)
            /\ Finish(t, "raised_port", [call EXCEPT !.polled2 = TRUE])
    /\ UNCHANGED <<ncalls, started, stopped, thread, watchers, db_path,
                   launches, crashes>>

(* ------------------------------------------- child processes and watchers *)
env_unchanged ==
    UNCHANGED <<lock, pc, ncalls, result, started, stopped, thread, db_path,
                tries, call, lastOp, cycles>>

\* the child bound the port and answers requests
child_listen(i) ==
    /\ watchers[i].proc = "booting"
    /\ ~PortOpen
    /\ watchers' = [watchers EXCEPT ![i].proc = "up"]
    /\ UNCHANGED <<launches, crashes>>
    /\ env_unchanged

\* the child honours the shutdown request of ShellCommandThread.stop
child_shutdown(i) ==
    /\ watchers[i].proc \in Alive
    /\ watchers[i].sig
    /\ watchers' = [watchers EXCEPT ![i].proc = "exited"]
    /\ UNCHANGED <<launches, crashes>>
    /\ env_unchanged

\* the child exits on its own with a non-zero code
child_crash(i) ==
    /\ watchers[i].proc \in Alive
    /\ crashes < MaxCrashes
    /\ watchers' = [watchers EXCEPT ![i].proc = "exited"]
    /\ crashes' = crashes + 1
    /\ UNCHANGED launches
    /\ env_unchanged

\* ShellCommandThread.run_cmd after the child exited: relaunch iff auto_restart
watcher_loop(i) ==
    /\ watchers[i].proc = "exited"
    /\ IF watchers[i].auto_restart
       THEN /\ watchers' = [watchers EXCEPT ![i].proc = "booting"]
            /\ launches' = launches + 1
       ELSE /\ watchers' = [watchers EXCEPT ![i].proc = "done"]
            /\ UNCHANGED launches
    /\ UNCHANGED crashes
    /\ env_unchanged

(* ------------------------------------------------------------------ Next *)
Next ==
    \/ \E t \in Threads : call_start(t) /\ UNCHANGED auxVars
    \/ \E t \in Threads : start_acquire(t) /\ UNCHANGED auxVars
    \/ \E t \in Threads : start_idempotent(t) /\ UNCHANGED auxVars
    \/ \E t \in Threads : start_clear(t) /\ UNCHANGED auxVars
    \/ \E t \in Threads : start_launch(t) /\ UNCHANGED auxVars
    \/ \E t \in Threads : start_probe(t) /\ UNCHANGED auxVars
    \/ \E t \in Threads : call_stop(t) /\ UNCHANGED auxVars
    \/ \E t \in Threads : stop_acquire(t) /\ UNCHANGED auxVars
    \/ \E t \in Threads : stop_noop(t) /\ UNCHANGED auxVars
    \/ \E t \in Threads : stop_disable_restart(t) /\ UNCHANGED auxVars
    \/ \E t \in Threads : stop_shutdown(t) /\ UNCHANGED auxVars
    \/ \E t \in Threads : stop_join(t) /\ UNCHANGED auxVars
    \/ \E t \in Threads : stop_poll1(t) /\ UNCHANGED auxVars
    \/ \E t \in Threads : stop_lookup(t) /\ UNCHANGED auxVars
    \/ \E t \in Threads : stop_terminate(t) /\ UNCHANGED auxVars
    \/ \E t \in Threads : stop_kill(t) /\ UNCHANGED auxVars
    \/ \E t \in Threads : stop_poll2(t) /\ UNCHANGED auxVars
    \/ \E i \in 1..Len(watchers) : child_listen(i) /\ UNCHANGED auxVars
    \/ \E i \in 1..Len(watchers) : child_shutdown(i) /\ UNCHANGED auxVars
    \/ \E i \in 1..Len(watchers) : child_crash(i) /\ UNCHANGED auxVars
    \/ \E i \in 1..Len(watchers) : watcher_loop(i) /\ UNCHANGED auxVars

Spec == Init /\ [][Next]_vars

(* ------------------------------ construction and the command line alone *)
SupIdle ==
    /\ lock = FreeLock
    /\ pc = [t \in Threads |-> "idle"]
    /\ ncalls = 0
    /\ result = [t \in Threads |-> "none"]
    /\ started = FALSE
    /\ stopped = FALSE
    /\ thread = NoThread
    /\ watchers = << >>
    /\ db_path = NoPath
    /\ tries = 0
    /\ lastOp = "none"
    /\ call = NewCall(NoOwner, "none")
    /\ cycles = 0
    /\ launches = 0
    /\ crashes = 0

CmdInit ==
    /\ SupIdle
    /\ env \in [port : PortArgs, db_path : DbPathArgs, dirs_data : DataDirs,
                persistence : BOOLEAN, manual : BOOLEAN, in_memory : BOOLEAN,
                heap_size : HeapSizes, arch : Archs,
                delay : BOOLEAN, optimize : BOOLEAN, share : BOOLEAN]
    /\ server = NoServer
    /\ cmd = NoCmd
    /\ LiveIdle
    /\ GetIdle
    /\ TwoIdle

\* DynamodbServer(port, host, db_path)
construct ==
    /\ ~server.constructed
    /\ \E fp \in FreePorts : server' = init_server(env, fp)
    /\ UNCHANGED <<env, cmd>>
    /\ UNCHANGED <<supVars, liveVars, getVars, twoVars>>

\* self._create_shell_command()
build_command ==
    /\ server.constructed
    /\ cmd = NoCmd
    /\ cmd' = create_shell_command(server)
    /\ UNCHANGED <<env, server>>
    /\ UNCHANGED <<supVars, liveVars, getVars, twoVars>>

CmdNext == construct \/ build_command

SpecCmd == CmdInit /\ [][CmdNext]_vars

(* ------------------------------------------- read-only liveness checks *)
\* RESTART_LOCK is taken by start_dynamodb and stop_dynamodb only
\* self.is_running() / self.is_up() called by a thread that is in no other call
liveness_check(t) ==
    /\ pc[t] = "idle"
    /\ observed' = [seen |-> TRUE, held |-> lock.owner \notin {NoOwner, t},
                    running |-> is_running, up |-> is_up]
    /\ UNCHANGED <<supVars, cmdVars, getVars, twoVars>>

MaxLiveCalls == 2       \* start/stop calls explored next to the liveness checks

LiveNext ==
    \/ Next /\ ncalls' <= MaxLiveCalls
    \/ \E t \in Threads : liveness_check(t)

SpecLive == Init /\ [][LiveNext]_vars

(* ------------------------------------------------- DynamodbServer.get() *)
MaxGets == 3            \* calls of get() explored

\* singleton_factory: the instance is looked up again once the lock is held
instance_set_under_lock_unchecked == FALSE
instance_set_under_lock == server.constructed

GetInit ==
    /\ SupIdle
    /\ LiveIdle
    /\ GetIdle
    /\ TwoIdle
    /\ env \in [port : PortArgs, db_path : {NoPath}, dirs_data : DataDirs,
                persistence : {TRUE}, manual : BOOLEAN, in_memory : BOOLEAN,
                heap_size : {"256m"}, arch : {"amd64"},
                delay : {FALSE}, optimize : {FALSE}, share : {FALSE}]
    /\ server = NoServer
    /\ cmd = NoCmd

get_call(t) ==
    /\ gpc[t] = "idle"
    /\ ngets < MaxGets
    /\ ngets' = ngets + 1
    /\ gpc' = [gpc EXCEPT ![t] = "fast"]
    /\ got' = [got EXCEPT ![t] = 0]
    /\ UNCHANGED <<glock, constructions, supVars, cmdVars, liveVars, twoVars>>

\* the instance is there: return it without the lock
get_fast(t) ==
    /\ gpc[t] = "fast"
    /\ IF server.constructed
       THEN /\ got' = [got EXCEPT ![t] = server.id]
            /\ gpc' = [gpc EXCEPT ![t] = "idle"]
       ELSE /\ gpc' = [gpc EXCEPT ![t] = "lock"]
            /\ UNCHANGED got
    /\ UNCHANGED <<glock, ngets, constructions, supVars, cmdVars, liveVars, twoVars>>

get_acquire(t) ==
    /\ gpc[t] = "lock"
    /\ glock \in {NoOwner, t}
    /\ glock' = t
    /\ gpc' = [gpc EXCEPT ![t] = "slow"]
    /\ UNCHANGED <<got, ngets, constructions, supVars, cmdVars, liveVars, twoVars>>

\* under the lock: return the instance, or run the factory (lines 86-87) once
get_slow(t) ==
    /\ gpc[t] = "slow"
    /\ IF instance_set_under_lock
       THEN /\ got' = [got EXCEPT ![t] = server.id]
            /\ UNCHANGED <<server, constructions>>
       ELSE /\ \E fp \in FreePorts :
                  server' = [init_server([env EXCEPT !.db_path = NoPath], fp)
                               EXCEPT !.id = constructions + 1]
            /\ constructions' = constructions + 1
            /\ got' = [got EXCEPT ![t] = constructions + 1]
    /\ glock' = NoOwner
    /\ gpc' = [gpc EXCEPT ![t] = "idle"]
    /\ UNCHANGED <<env, cmd, ngets, supVars, liveVars, twoVars>>

GetNext ==
    \/ \E t \in Threads : get_call(t)
    \/ \E t \in Threads : get_fast(t)
    \/ \E t \in Threads : get_acquire(t)
    \/ \E t \in Threads : get_slow(t)

SpecGet == GetInit /\ [][GetNext]_vars

(* -------------------------- two supervisor instances in one process *)
(* Each instance has its own flags, process handle, children and port; a   *)
(* call goes through the same steps as above, with lines 120-124 and lines *)
(* 136-140 taken as one step each.  Children exit only when asked to.      *)
MaxTwoCalls == 3        \* start/stop calls explored on the two instances
MaxTwoSpawns == 2       \* do_start_thread calls explored on one instance

\* the lock synchronized(lock=RESTART_LOCK) takes for a call on an instance
restart_lock_per_instance(inst) == inst
restart_lock_of(inst) == "RESTART_LOCK"

TwoBody == {"body", "launch", "wait", "kill", "repoll"}
TwoAlive(i) == sup[i].thread # NoThread /\ sup[i].kids[sup[i].thread].proc \in Alive
TwoPortOpen(i) == \E k \in 1..Len(sup[i].kids) : sup[i].kids[k].proc = "up"

TwoInit ==
    /\ SupIdle
    /\ CmdIdle
    /\ LiveIdle
    /\ GetIdle
    /\ TwoIdle

TwoRelease(t) ==
    /\ locks' = [locks EXCEPT ![restart_lock_of(target[t])] = NoOwner]
    /\ tpc' = [tpc EXCEPT ![t] = "idle"]

two_call(t, i, op) ==
    /\ tpc[t] = "idle"
    /\ tcalls < MaxTwoCalls
    /\ tcalls' = tcalls + 1
    /\ target' = [target EXCEPT ![t] = i]
    /\ top' = [top EXCEPT ![t] = op]
    /\ tpc' = [tpc EXCEPT ![t] = "lock"]
    /\ UNCHANGED <<locks, ttries, sup, supVars, cmdVars, liveVars, getVars>>

two_acquire(t) ==
    /\ tpc[t] = "lock"
    /\ locks[restart_lock_of(target[t])] \in {NoOwner, t}
    /\ locks' = [locks EXCEPT ![restart_lock_of(target[t])] = t]
    /\ tpc' = [tpc EXCEPT ![t] = "body"]
    /\ ttries' = [ttries EXCEPT ![t] = 0]
    /\ UNCHANGED <<target, top, tcalls, sup, supVars, cmdVars, liveVars, getVars>>

\* lines 94-109: return if running and up, else clear both flags
two_start_body(t) ==
    /\ tpc[t] = "body" /\ top[t] = "start"
    /\ LET i == target[t]
       IN  IF sup[i].started /\ ~sup[i].stopped /\ TwoAlive(i) /\ TwoPortOpen(i)
           THEN TwoRelease(t) /\ UNCHANGED sup
           ELSE /\ sup' = [sup EXCEPT ![i].started = clear_event(sup[i].started),
                                      ![i].stopped = clear_event(sup[i].stopped)]
                /\ tpc' = [tpc EXCEPT ![t] = "launch"]
                /\ UNCHANGED locks
    /\ UNCHANGED <<target, top, ttries, tcalls, supVars, cmdVars, liveVars, getVars>>

\* line 111: started = self.start()
two_start_launch(t) ==
    /\ tpc[t] = "launch"
    /\ LET i   == target[t]
           out == server_start(sup[i].started, sup[i].stopped)
       IN  \/ /\ out = "raise_restart"
              /\ TwoRelease(t) /\ UNCHANGED sup
           \/ /\ out = "already"
              /\ tpc' = [tpc EXCEPT ![t] = "wait"]
              /\ UNCHANGED <<sup, locks>>
           \/ \* do_start_thread created and started the watcher
              /\ out = "spawn"
              /\ Len(sup[i].kids) < MaxTwoSpawns
              /\ sup' = [sup EXCEPT ![i].started = TRUE,
                                    ![i].thread = Len(sup[i].kids) + 1,
                                    ![i].kids = Append(@, [proc |-> "booting",
                                                           sig |-> FALSE])]
              /\ tpc' = [tpc EXCEPT ![t] = "wait"]
              /\ UNCHANGED locks
           \/ \* do_start_thread raised (install or launch failed)
              /\ out = "spawn"
              /\ Len(sup[i].kids) < MaxTwoSpawns
              /\ TwoRelease(t) /\ UNCHANGED sup
    /\ UNCHANGED <<target, top, ttries, tcalls, supVars, cmdVars, liveVars, getVars>>

\* lines 112-113
two_start_probe(t) ==
    /\ tpc[t] = "wait" /\ top[t] = "start"
    /\ \E listed \in BOOLEAN, budget \in RetryBudgets(HEALTH_RETRIES) :
       IF check_dynamodb(TwoPortOpen(target[t]) /\ listed)
          \/ retry_exhausted(next_attempt(ttries[t]), budget)
       THEN TwoRelease(t) /\ UNCHANGED ttries
       ELSE /\ ttries' = [ttries EXCEPT ![t] = next_attempt(@)]
            /\ UNCHANGED <<locks, tpc>>
    /\ UNCHANGED <<target, top, tcalls, sup, supVars, cmdVars, liveVars, getVars>>

\* lines 120-124
two_stop_body(t) ==
    /\ tpc[t] = "body" /\ top[t] = "stop"
    /\ LET i == target[t]
       IN  IF sup[i].thread = NoThread \/ ~sup[i].started
           THEN \* line 121 returns; Server.shutdown raises before a start
                TwoRelease(t) /\ UNCHANGED <<sup, ttries>>
           ELSE /\ sup' = IF sup[i].stopped THEN sup
                          ELSE [sup EXCEPT ![i].stopped = TRUE,
                                           ![i].kids[sup[i].thread].sig = TRUE]
                /\ tpc' = [tpc EXCEPT ![t] = "wait"]
                /\ ttries' = [ttries EXCEPT ![t] = 0]
                /\ UNCHANGED locks
    /\ UNCHANGED <<target, top, tcalls, supVars, cmdVars, liveVars, getVars>>

\* lines 125-127
two_stop_poll(t) ==
    /\ tpc[t] = "wait" /\ top[t] = "stop"
    /\ \E budget \in RetryBudgets(PORT_RETRIES) :
       LET exhausted == retry_exhausted(next_attempt(ttries[t]), budget)
       IN  IF port_wait_failed(TwoPortOpen(target[t]), exhausted)
           THEN /\ tpc' = [tpc EXCEPT ![t] = "kill"]
                /\ UNCHANGED <<locks, ttries>>
           ELSE IF ~TwoPortOpen(target[t])
           THEN TwoRelease(t) /\ UNCHANGED ttries
           ELSE /\ ttries' = [ttries EXCEPT ![t] = next_attempt(@)]
                /\ UNCHANGED <<locks, tpc>>
    /\ UNCHANGED <<target, top, tcalls, sup, supVars, cmdVars, liveVars, getVars>>

\* lines 136-140: pid lookup (raises when the process is gone), terminate, kill
two_stop_kill(t) ==
    /\ tpc[t] = "kill"
    /\ LET i == target[t]
       IN  \E found, dies \in BOOLEAN :
              /\ TwoAlive(i) => found
              /\ ~found => ~dies
              /\ IF found
                 THEN /\ sup' = IF dies /\ TwoAlive(i)
                                THEN [sup EXCEPT ![i].kids[sup[i].thread].proc = "exited"]
                                ELSE sup
                      /\ tpc' = [tpc EXCEPT ![t] = "repoll"]
                      /\ ttries' = [ttries EXCEPT ![t] = 0]
                      /\ UNCHANGED locks
                 ELSE TwoRelease(t) /\ UNCHANGED <<sup, ttries>>
    /\ UNCHANGED <<target, top, tcalls, supVars, cmdVars, liveVars, getVars>>

\* line 141
two_stop_repoll(t) ==
    /\ tpc[t] = "repoll"
    /\ \E budget \in RetryBudgets(KILL_PORT_RETRIES) :
       IF ~TwoPortOpen(target[t])
          \/ retry_exhausted(next_attempt(ttries[t]), budget)
       THEN TwoRelease(t) /\ UNCHANGED ttries
       ELSE /\ ttries' = [ttries EXCEPT ![t] = next_attempt(@)]
            /\ UNCHANGED <<locks, tpc>>
    /\ UNCHANGED <<target, top, tcalls, sup, supVars, cmdVars, liveVars, getVars>>

two_child_listen(i, k) ==
    /\ sup[i].kids[k].proc = "booting"
    /\ ~TwoPortOpen(i)
    /\ sup' = [sup EXCEPT ![i].kids[k].proc = "up"]
    /\ UNCHANGED <<locks, tpc, target, top, ttries, tcalls,
                   supVars, cmdVars, liveVars, getVars>>

two_child_shutdown(i, k) ==
    /\ sup[i].kids[k].proc \in Alive /\ sup[i].kids[k].sig
    /\ sup' = [sup EXCEPT ![i].kids[k].proc = "exited"]
    /\ UNCHANGED <<locks, tpc, target, top, ttries, tcalls,
                   supVars, cmdVars, liveVars, getVars>>

TwoNext ==
    \/ \E t \in Threads, i \in Instances, op \in {"start", "stop"} : two_call(t, i, op)
    \/ \E t \in Threads : two_acquire(t)
    \/ \E t \in Threads : two_start_body(t)
    \/ \E t \in Threads : two_start_launch(t)
    \/ \E t \in Threads : two_start_probe(t)
    \/ \E t \in Threads : two_stop_body(t)
    \/ \E t \in Threads : two_stop_poll(t)
    \/ \E t \in Threads : two_stop_kill(t)
    \/ \E t \in Threads : two_stop_repoll(t)
    \/ \E i \in Instances : \E k \in 1..Len(sup[i].kids) : two_child_listen(i, k)
    \/ \E i \in Instances : \E k \in 1..Len(sup[i].kids) : two_child_shutdown(i, k)

SpecTwo == TwoInit /\ [][TwoNext]_vars

(* ---------------------------------------------------------------- claims *)
InBody == {"start_body", "start_launch", "start_wait", "stop_body", "stop_shutdown", "stop_join",
           "stop_poll1", "stop_lookup", "stop_terminate", "stop_kill", "stop_poll2"}

StartCall == call.kind = "start"
StopCall == call.kind = "stop"

\* C1: a start_dynamodb that follows a successful start_dynamodb with no stop in
\* between, while the child is alive and listening, returns True at the
\* idempotence check: it clears no flag, creates no directory and spawns nothing;
\* when these are the only two calls, one watcher and one process exist in total.
C1_SecondStartIsNoop ==
    (StartCall /\ call.checked /\ call.pre) =>
        /\ call.early /\ call.done /\ call.res = "true"
        /\ ~call.cleared /\ ~call.mkdir /\ ~call.spawned
        /\ (ncalls = 2 /\ crashes = 0 => Len(watchers) = 1 /\ launches = 1)

C1_Witness ==
    /\ StartCall /\ call.done /\ call.pre /\ call.early
    /\ ncalls = 2 /\ Len(watchers) = 1 /\ db_path # NoPath

\* C2: when the two threads each made one start_dynamodb call on the fresh
\* supervisor, both calls ended without raising and the child did not exit on its
\* own, exactly one child process was launched and both calls returned True.
C2_ConcurrentStartsSpawnOnce ==
    (/\ ncalls = 2
     /\ crashes = 0
     /\ \A t \in Threads : pc[t] = "idle" /\ result[t] \in {"true", "false"})
    => /\ launches = 1
       /\ Len(watchers) = 1
       /\ \A t \in Threads : result[t] = "true"

C2_Witness ==
    /\ ncalls = 2 /\ crashes = 0 /\ launches = 1
    /\ \A t \in Threads : pc[t] = "idle" /\ result[t] = "true"

\* C3: at most one thread is inside the body of start_dynamodb or stop_dynamodb,
\* and that thread owns RESTART_LOCK.
C3_MutualExclusion ==
    /\ Cardinality({t \in Threads : pc[t] \in InBody}) <= 1
    /\ \A t \in Threads : pc[t] \in InBody => lock.owner = t

C3_Witness ==
    \E t, u \in Threads :
        /\ pc[t] \in {"stop_poll1", "stop_terminate", "stop_poll2"}
        /\ pc[u] = "start_lock"

\* C4: a supervisor never has more than one live child OS process; stated for
\* the runs in which no child exits on its own, so that only start_dynamodb and
\* stop_dynamodb decide how many children live.
C4_AtMostOneLiveChild == crashes = 0 => Cardinality(LiveChildren) <= 1

\* C5: stop_dynamodb never raises: a stop that went as far as terminate and kill
\* returns normally whatever the second port polling finds, also when the port
\* is still open after the last re-poll.
C5_StopNeverRaises ==
    (StopCall /\ call.done /\ call.kill) => call.res = "returned"

\* C6: a stop_dynamodb step taken while no process handle exists ends the call
\* with a normal return and leaves the flags, the handle, the watchers and the
\* child processes alone; no signal, join, poll or kill was made.
C6_StopWithoutHandleIsNoop ==
    [][\A t \in Threads :
          (pc[t] = "stop_body" /\ thread = NoThread /\ pc'[t] # "stop_body") =>
              /\ pc'[t] = "idle"
              /\ result'[t] = "returned"
              /\ lock' = FreeLock
              /\ ~call'.sig /\ ~call'.joined /\ ~call'.polled
              /\ ~call'.term /\ ~call'.kill /\ ~call'.polled2
              /\ UNCHANGED <<started, stopped, thread, watchers, launches>>]_vars

C6_Witness ==
    /\ StopCall /\ call.done /\ call.noop /\ call.handle = NoThread
    /\ call.res = "returned" /\ ~started /\ ~stopped

\* C7: in a finished stop_dynamodb, terminate and kill were invoked iff the first
\* polling budget was exhausted with the port still open.
C7_KillIffPortStillOpen ==
    (StopCall /\ call.done) => ((call.term /\ call.kill) <=> call.poll1Exh)

C9_FailedStartNotRunning ==
    (StartCall /\ call.done /\ call.res = "raised_health") => ~is_running

\* C10: a start_dynamodb that gets past the idempotence check never raises
\* "cannot restart a stopped server", whatever came before it: it waits for health
\* with _started set and _stopped clear on a watcher it spawned itself, and
\* returns True as soon as a probe succeeds.
C10_RestartAlwaysPossible ==
    (StartCall /\ call.checked /\ ~call.early) =>
        /\ call.res # "raised_restart"
        /\ pc[call.owner] = "start_wait" =>
               (started /\ ~stopped /\ call.spawned /\ thread = Len(watchers))
        /\ call.done => (call.spawned \/ call.res = "raised_spawn")
        /\ (call.done /\ call.probeOk) => call.res = "true"

C10_Witness ==
    /\ StartCall /\ call.done /\ call.spawned /\ call.res = "true"
    /\ cycles >= 1 /\ lastOp = "start_ok" /\ Len(watchers) = 2

(* ------------------------------------------------ claims on the argv *)
Has(seq, x) == \E i \in 1..Len(seq) : seq[i] = x
HasPair(seq, x, y) == \E i \in 1..(Len(seq) - 1) : seq[i] = x /\ seq[i + 1] = y
Count(seq, x) == Cardinality({i \in 1..Len(seq) : seq[i] = x})

\* C11: the argv built for a constructed server has -port followed by the port,
\* and exactly one of -inMemory and -dbPath: -inMemory alone when db_path is
\* None, the adjacent pair -dbPath, db_path alone when db_path is a string.
C11_ExactlyOneStorageFlag ==
    cmd # NoCmd =>
        /\ HasPair(cmd, arg("-port"), str(server.port))
        /\ IF server.db_path = NoPath
           THEN Has(cmd, arg("-inMemory")) /\ ~Has(cmd, arg("-dbPath"))
           ELSE /\ HasPair(cmd, arg("-dbPath"), arg(server.db_path))
                /\ ~Has(cmd, arg("-inMemory"))

\* C12: each of the three feature flags is in the argv (once) iff its own field
\* is true, whatever the other two fields and the data path are.
C12_FeatureFlagsIndependent ==
    cmd # NoCmd =>
        /\ Count(cmd, arg("-delayTransientStatuses")) =
               (IF server.delay_transient_statuses THEN 1 ELSE 0)
        /\ Count(cmd, arg("-optimizeDbBeforeStartup")) =
               (IF server.optimize_db_before_startup THEN 1 ELSE 0)
        /\ Count(cmd, arg("-sharedDb")) = (IF server.share_db THEN 1 ELSE 0)
        /\ server.delay_transient_statuses = env.delay
        /\ server.optimize_db_before_startup = env.optimize
        /\ server.share_db = env.share

C12_Witness ==
    /\ cmd # NoCmd
    /\ server.delay_transient_statuses /\ ~server.optimize_db_before_startup
    /\ server.share_db /\ truthy(server.db_path)
    /\ Has(cmd, arg("-sharedDb")) /\ Has(cmd, arg("-delayTransientStatuses"))

\* C14: get() runs the constructor at most once, and every thread that got an
\* instance got that first one.
C14_SingletonConstructedOnce ==
    /\ constructions <= 1
    /\ \A t \in Threads : got[t] # 0 => (got[t] = 1 /\ server.constructed)
    /\ server.constructed => (constructions = 1 /\ server.id = 1)

C14_Witness ==
    /\ constructions = 1
    /\ \A t \in Threads : got[t] = 1 /\ gpc[t] = "idle"
    /\ ngets = 2

\* a step in which start_dynamodb creates and starts the watcher of a new child
SpawnStep ==
    /\ StartCall /\ ~call.spawned /\ call'.spawned
    /\ pc[call.owner] = "start_launch" /\ pc'[call.owner] = "start_wait"
    /\ Len(watchers') = Len(watchers) + 1

\* a step in which a watcher with auto_restart set relaunches its exited child
RelaunchStep ==
    /\ Len(watchers') = Len(watchers)
    /\ \E i \in 1..Len(watchers) :
          /\ watchers[i].proc = "exited" /\ watchers[i].auto_restart
          /\ watchers'[i].proc = "booting"

\* C15 (as stated): a child process is launched only by a step of start_dynamodb,
\* at most once per call; the number of launches grows in no other step.
C15_LaunchOnlyByStart ==
    [][launches' # launches => launches' = launches + 1 /\ SpawnStep]_vars

\* C15 (amended): start_dynamodb launches a child at most once per call and its
\* health retries launch nothing; the only other launches are made by a watcher
\* that has auto_restart set and whose child exited, one launch per exit.
C15_LaunchByStartOrAutoRestart ==
    [][/\ launches' # launches =>
            /\ launches' = launches + 1
            /\ SpawnStep \/ RelaunchStep
       /\ Len(watchers') # Len(watchers) => SpawnStep
       /\ (\E t \in Threads : pc[t] = "start_wait" /\ pc'[t] = "start_wait") =>
            (launches' = launches \/ RelaunchStep)]_vars

C15_Witness ==
    \E t \in Threads :
        /\ pc[t] = "start_wait" /\ StartCall /\ call.spawned
        /\ tries > 0
        /\ crashes = 1
        /\ Len(watchers) = 1 /\ launches = 2

\* C16: in a stop_dynamodb on an existing handle, auto_restart is cleared before
\* shutdown is called, join follows shutdown, polling follows join, terminate
\* follows the exhausted polling and kill follows terminate; a watcher whose child
\* was sent the shutdown request has auto_restart cleared and never relaunches.
C16_StopStepOrder ==
    /\ [](/\ StopCall =>
                /\ call.shut => call.disabled
                /\ call.sig => call.shut
                /\ call.joined => call.shut
                /\ call.polled => call.joined
                /\ call.term => call.polled
                /\ call.kill => call.term
                /\ call.polled2 => call.kill
          /\ \A i \in 1..Len(watchers) : watchers[i].sig => ~watchers[i].auto_restart)
    /\ [][\A i \in 1..Len(watchers) :
            watchers[i].sig /\ watchers[i].proc # "booting"
                => watchers'[i].proc # "booting"]_vars

C16_Witness ==
    /\ StopCall /\ call.done /\ call.res = "returned"
    /\ call.sig /\ call.kill /\ call.polled2
    /\ watchers[thread].proc = "done"

\* C18: the restart lock is held exactly while its owner is inside the body of
\* start_dynamodb or stop_dynamodb; once a call ended, by return or by raise, the
\* lock is free and every thread waiting for it can acquire it.
C18_LockReleasedAtEnd ==
    /\ \A t \in Threads : (lock.owner = t) <=> (pc[t] \in InBody)
    /\ call.done => lock = FreeLock
    /\ (\A t \in Threads : pc[t] \notin InBody) =>
          /\ \A t \in Threads : pc[t] = "start_lock" => ENABLED start_acquire(t)
          /\ \A t \in Threads : pc[t] = "stop_lock" => ENABLED stop_acquire(t)

\* a stop_dynamodb that follows a start_dynamodb which raised after its health
\* wait: it acquired the lock, signalled the dangling child and left none alive
C18_Witness ==
    /\ StopCall /\ call.prev = "start_fail" /\ call.done /\ call.res = "returned"
    /\ call.sig
    /\ Len(watchers) = 1 /\ LiveChildren = {}
    /\ lock = FreeLock

\* a stop_dynamodb on an existing handle whose predecessor was a stop_dynamodb
\* that returned, with no start_dynamodb in between
RepeatedStop == StopCall /\ call.prev = "stop" /\ call.handle # NoThread

\* C20: a repeated stop_dynamodb runs the sequence again on the same handle but
\* sends no shutdown request; it terminates or kills only after the port was
\* open at every poll of the first wait, then aims at the child of the handle the
\* earlier stop worked on; if the polling found the port closed it returns.
C20_RepeatedStop ==
    RepeatedStop =>
        /\ thread = call.handle
        /\ ~call.noop /\ ~call.sig
        /\ ~watchers[call.handle].auto_restart
        /\ (call.term \/ call.kill) => call.poll1Exh
        /\ (call.done /\ ~call.poll1Exh) =>
              /\ call.res = "returned"
              /\ call.disabled /\ call.shut /\ call.joined /\ call.polled

C20_Witness ==
    /\ RepeatedStop /\ call.done /\ call.res = "returned"
    /\ call.polled /\ ~call.poll1Exh /\ ~call.term /\ ~call.kill
    /\ ~PortOpen

\* C19: at most one thread is inside the body of start_dynamodb or stop_dynamodb,
\* whichever of the instances the calls are made on; a thread inside a body owns
\* the one module-level lock.
C19_ExclusionAcrossInstances ==
    /\ Cardinality({t \in Threads : tpc[t] \in TwoBody}) <= 1
    /\ \A t \in Threads : tpc[t] \in TwoBody => locks["RESTART_LOCK"] = t

C19_Witness ==
    \E t, u \in Threads :
        /\ target[t] = "A" /\ top[t] = "start" /\ tpc[t] = "wait"
        /\ target[u] = "B" /\ top[u] = "stop" /\ tpc[u] = "lock"
        /\ TwoAlive("B") /\ TwoPortOpen("B") /\ ~sup["B"].stopped

====
